---- MODULE Spec2Model ----
(***************************************************************************)
(* State-machine model of the FleetView engine (src/app.js) with its       *)
(* configuration (config.js, lines 142-199 of src/errorManager.js).        *)
(*                                                                         *)
(* Strings that the code inspects character by character (payloads,        *)
(* nicknames) are sequences of one-character strings.  JavaScript null is  *)
(* 0 for object handles and timer ids, NullStr for "string or null"        *)
(* values and NullDom for a missing tile.                                  *)
(***************************************************************************)
EXTENDS Integers, Sequences, FiniteSets, TLC

(***************************************************************************)
(* Bounds of the model.                                                    *)
(***************************************************************************)
\* scan requests the scan source receives in one run
MaxRequests == 2
\* matched observations per identity in Spec
MaxObs == 2
\* matched observations of the single identity in SpecHist
MaxHistObs == 22
\* changes of signal strength between consecutive observations in SpecHist
MaxSwitches == 2

(***************************************************************************)
(* Program constants.                                                      *)
(***************************************************************************)
HISTORY_CAP == 20
PREVIEW_LEN == 20
ACTIVE_MS == 5000
INACTIVE_MS == 30000
STRONG == -75
WEAK == -88

\* company identifier 0xa212 of the manufacturer profile
COMPANY_ID == 41490
DEFAULT_NAME ==
    <<"U","n","b","e","n","a","n","n","t","e","s"," ","F","T","S">>

EMPTY_PAYLOAD ==
    <<"N","/","A"," ","(","l","e","e","r","e"," ","P","a","y","l","o","a","d",")">>

NullStr == <<"<null>">>

NullDom == [tile |-> FALSE]

\* a Map without entries
EmptyMap == [k \in {} |-> 0]

\* JavaScript truthiness of a "string or null" value
Falsy(s) == s = NullStr \/ s = <<>>

(***************************************************************************)
(* Configurations: CONFIG.FTS_PROFILES as shipped, the same two profiles   *)
(* in the other order, a list with an unrecognized type in front, and a    *)
(* list with no recognized type at all.                                    *)
(***************************************************************************)
ProfileA == [profileName |-> "Typ A", type |-> "service", key |-> "0xfcf1"]

ProfileB == [profileName |-> "Typ B", type |-> "manufacturer", key |-> COMPANY_ID]

ProfileX == [profileName |-> "Typ X", type |-> "beacon", key |-> "0xfcf1"]

FTS_PROFILES == <<ProfileA, ProfileB>>

ProfileLists ==
    { FTS_PROFILES, <<ProfileB, ProfileA>>, <<ProfileX, ProfileA>>, <<ProfileX>> }

(***************************************************************************)
(* Inputs.                                                                 *)
(***************************************************************************)
DeviceIds == {"d1", "d2"}

RssiValues == {-70, -90}

\* signal strengths around the two thresholds of CONFIG.RSSI_STATUS
BandRssiValues == { STRONG + 1, STRONG, STRONG - 1, WEAK + 1, WEAK, WEAK - 1 }

ServiceKeys == {"0xfcf1", "0x1234"}

\* a DataView's bytes, or a value whose bytes cannot be read
Malformed == <<-1>>

\* no DataView at all (null or undefined)
NullView == <<-2>>

DataValues == { <<>>, <<4, 55>>, Malformed }

\* a Map in insertion order: a sequence of [key, data] entries, keys distinct
ServiceMaps ==
    { <<>> }
    \cup { <<[key |-> k, data |-> v]>> : k \in ServiceKeys, v \in DataValues }
    \cup { <<[key |-> "0x1234", data |-> <<4, 55>>], [key |-> "0xfcf1", data |-> v]>> :
             v \in DataValues }
    \cup { <<[key |-> "0xfcf1", data |-> v], [key |-> "0x1234", data |-> <<4, 55>>]>> :
             v \in DataValues }

\* a company identifier no profile names
OtherCompany == COMPANY_ID + 1

ManufacturerMaps ==
    { <<>>, <<[key |-> OtherCompany, data |-> <<4, 55>>]>> }
    \cup { <<[key |-> COMPANY_ID, data |-> v]>> : v \in {<<4, 55>>, Malformed} }

Advertisements ==
    [serviceData : ServiceMaps, manufacturerData : ManufacturerMaps]

\* byte sequences to render: none, absent, and bytes below and above 16
RenderValues == { <<>>, NullView, <<4, 55>>, <<0>>, <<255>>, <<171, 15, 16>> }

RenderAdvertisements ==
    { [serviceData |-> <<[key |-> "0xfcf1", data |-> v]>>, manufacturerData |-> << >>] :
        v \in RenderValues }

TimePoints == {0, ACTIVE_MS, INACTIVE_MS}

\* clock readings around the two windows of CONFIG.LED_STATUS
FreshTimes ==
    { 1, ACTIVE_MS - 1, ACTIVE_MS, ACTIVE_MS + 1,
      INACTIVE_MS - 1, INACTIVE_MS, INACTIVE_MS + 1, INACTIVE_MS + ACTIVE_MS }

NameInputs == { <<>>, <<" ">>, <<" ", "a", " ">>, <<"b">> }

\* NameInputs and names with a tab and with white space inside
LabelInputs == NameInputs \cup { <<"\t", " ">>, <<"\t", "a", " ", "b", " ">> }

StoredNames == { <<"a">> }

VARIABLES
    profiles,          \* CONFIG.FTS_PROFILES
    bluetooth,         \* navigator.bluetooth is present
    detectedAssets,    \* Map deviceId -> asset
    scan,              \* the scan handle held, 0 for null
    tickerInterval,    \* the interval id held, 0 for null
    btnScanning,       \* the start button shows "Scan läuft... (Stoppen)"
    listening,         \* handleAdvertisement is registered
    currentInspectedId,\* NullStr or the id shown in the inspector
    handles,           \* scan source: active flag of every handle it gave out
    pending,           \* scan source: start requests not yet settled
    requests,          \* scan source: start requests received
    intervals,         \* timer service: ids of the intervals that still fire
    localStorage,      \* label store: deviceId -> nickname
    now,               \* the clock, in ms
    obsLog,            \* per identity, the signal strengths of its matched observations
    lastEvent          \* the handler that ran last and what it reported

vars ==
    << profiles, bluetooth, detectedAssets, scan, tickerInterval, btnScanning,
       listening, currentInspectedId, handles, pending, requests, intervals,
       localStorage, now, obsLog, lastEvent >>

registryVars == << detectedAssets, obsLog >>

controllerVars ==
    << scan, tickerInterval, btnScanning, listening, handles, pending, requests,
       intervals >>

configVars == << profiles, bluetooth >>

\* no advertisement
NoEvent == [serviceData |-> << >>, manufacturerData |-> << >>]

\* what the last handler did: its name and argument, for handleAdvertisement
\* the advertisement and the profile matched (0 for none), the conditions it
\* reported and the tile operations it performed
Event(op, arg, reports, signals) ==
    [op |-> op, arg |-> arg, event |-> NoEvent, profile |-> 0,
     reports |-> reports, signals |-> signals]

Init ==
    /\ profiles \in ProfileLists
    /\ bluetooth \in BOOLEAN
    /\ detectedAssets = EmptyMap
    /\ scan = 0
    /\ tickerInterval = 0
    /\ btnScanning = FALSE
    /\ listening = FALSE
    /\ currentInspectedId = NullStr
    /\ handles = << >>
    /\ pending = 0
    /\ requests = 0
    /\ intervals = {}
    /\ localStorage \in { EmptyMap } \cup { [d \in {"d1"} |-> n] : n \in StoredNames }
    /\ now = 0
    /\ obsLog = [d \in DeviceIds |-> << >>]
    /\ lastEvent = Event("DOMContentLoaded", "", <<"log:init">>, << >>)

(***************************************************************************)
(* Helpers of section 6 (dataViewToHexString) and String.prototype.trim.   *)
(***************************************************************************)
HexDigits ==
    <<"0","1","2","3","4","5","6","7","8","9","A","B","C","D","E","F">>

RECURSIVE ToHex(_)
\* Number.prototype.toString(16).toUpperCase() for n >= 0
ToHex(n) ==
    IF n < 16 THEN <<HexDigits[n + 1]>>
    ELSE ToHex(n \div 16) \o <<HexDigits[(n % 16) + 1]>>

\* the white space String.prototype.trim removes (space and tab of it)
IsSpace(c) == c \in {" ", "\t"}

RECURSIVE TrimStart(_)
TrimStart(s) ==
    IF s # <<>> /\ IsSpace(Head(s)) THEN TrimStart(Tail(s)) ELSE s

RECURSIVE TrimEnd(_)
TrimEnd(s) ==
    IF s # <<>> /\ IsSpace(s[Len(s)]) THEN TrimEnd(SubSeq(s, 1, Len(s) - 1)) ELSE s

\* trim that leaves the white space at the end
TrimLeading(s) == TrimStart(s)

Trim(s) == TrimEnd(TrimStart(s))

\* String.prototype.substring(0, n)
Substring0(s, n) == SubSeq(s, 1, IF Len(s) < n THEN Len(s) ELSE n)

RECURSIVE HexLoopUnpadded(_, _, _)
\* HexLoop without the leading zero of a byte below 16
HexLoopUnpadded(bytes, i, hexString) ==
    IF i > Len(bytes) THEN hexString
    ELSE HexLoopUnpadded(bytes, i + 1, hexString \o ToHex(bytes[i]) \o <<" ">>)

RECURSIVE HexLoop(_, _, _)
\* the for loop of dataViewToHexString from index i (1-based) on
HexLoop(bytes, i, hexString) ==
    IF i > Len(bytes) THEN hexString
    ELSE LET byte == ToHex(bytes[i])
         IN HexLoop(bytes, i + 1,
                hexString \o (IF Len(byte) = 1 THEN <<"0">> ELSE <<>>) \o byte \o <<" ">>)

\* reading the bytes of this value raises an exception
Throws(dataView) == dataView = Malformed

\* dataViewToHexString for a value whose bytes can be read 
dataViewToHexString(dataView) ==
    IF dataView = NullView \/ Len(dataView) = 0
    THEN EMPTY_PAYLOAD
    ELSE Trim(HexLoop(dataView, 1, <<"0","x">>))

(***************************************************************************)
(* Map.prototype.has / get on a Map given as a sequence of entries.        *)
(***************************************************************************)
\* has() that looks at the first entry only
MapHasFirst(m, k) == Len(m) > 0 /\ m[1].key = k

MapHas(m, k) == \E i \in 1..Len(m) : m[i].key = k

MapGet(m, k) == m[CHOOSE i \in 1..Len(m) : m[i].key = k].data

NoMatch == [payload |-> NullStr, profile |-> 0, warnings |-> << >>]

RECURSIVE ExtractAborting(_, _, _, _)
\* ExtractFrom with the try around the loop: a failed extraction ends it
ExtractAborting(plist, event, i, warnings) ==
    IF i > Len(plist) THEN [NoMatch EXCEPT !.warnings = warnings]
    ELSE LET profile == plist[i]
             data == IF profile.type = "service"
                     THEN event.serviceData ELSE event.manufacturerData
             keyed == /\ profile.type \in {"service", "manufacturer"}
                      /\ MapHas(data, profile.key)
         IN IF ~keyed THEN ExtractAborting(plist, event, i + 1, warnings)
            ELSE IF Throws(MapGet(data, profile.key))
            THEN [NoMatch EXCEPT !.warnings = Append(warnings, "warn:extract-failed")]
            ELSE [payload |-> dataViewToHexString(MapGet(data, profile.key)),
                  profile |-> i, warnings |-> warnings]

RECURSIVE ExtractFrom(_, _, _, _)
\* the loop of extractRelevantPayload from profile i on; profile is the index
\* of the matched profile in the list, 0 for null
ExtractFrom(plist, event, i, warnings) ==
    IF i > Len(plist) THEN [NoMatch EXCEPT !.warnings = warnings]
    ELSE LET profile == plist[i]
             data == IF profile.type = "service"
                     THEN event.serviceData ELSE event.manufacturerData
             keyed == /\ profile.type \in {"service", "manufacturer"}
                      /\ MapHas(data, profile.key)
         IN IF ~keyed THEN ExtractFrom(plist, event, i + 1, warnings)
            ELSE IF Throws(MapGet(data, profile.key))
            THEN ExtractFrom(plist, event, i + 1,
                     Append(warnings, "warn:extract-failed"))
            ELSE [payload |-> dataViewToHexString(MapGet(data, profile.key)),
                  profile |-> i, warnings |-> warnings]

\* extractRelevantPayload whose loop starts at the second profile
extractSkippingFirst(plist, event) == ExtractFrom(plist, event, 2, << >>)

extractRelevantPayload(plist, event) == ExtractFrom(plist, event, 1, << >>)

(***************************************************************************)
(* Tiles: updateSingleAssetStatus, updateFtsTile, createFtsTile.           *)
(***************************************************************************)
\* Math.round(diffMs / 1000) for diffMs >= 0
RoundSec(diffMs) == (diffMs + 500) \div 1000

\* updateSingleAssetStatus that counts a classification as an observation
updateSingleAssetStatusTouching(asset, t) ==
    IF ~asset.dom.tile THEN asset
    ELSE LET diffMs == t - asset.lastSeen
             ledClass == IF diffMs < ACTIVE_MS THEN "led-green"
                         ELSE IF diffMs < INACTIVE_MS THEN "led-yellow"
                         ELSE "led-red"
         IN [asset EXCEPT !.dom.led = ledClass, !.lastSeen = t]

\* updateSingleAssetStatus whose windows include their upper limits
updateSingleAssetStatusInclusive(asset, t) ==
    IF ~asset.dom.tile THEN asset
    ELSE LET diffMs == t - asset.lastSeen
             ledClass == IF diffMs <= ACTIVE_MS THEN "led-green"
                         ELSE IF diffMs <= INACTIVE_MS THEN "led-yellow"
                         ELSE "led-red"
         IN [asset EXCEPT !.dom.led = ledClass]

updateSingleAssetStatus(asset, t) ==
    IF ~asset.dom.tile THEN asset
    ELSE LET diffMs == t - asset.lastSeen
             diffSec == RoundSec(diffMs)
             ledClass == IF diffMs < ACTIVE_MS THEN "led-green"
                         ELSE IF diffMs < INACTIVE_MS THEN "led-yellow"
                         ELSE "led-red"
             lastSeenText ==
                 IF diffMs < ACTIVE_MS
                 THEN (IF diffSec = 0 THEN <<"gerade eben">> ELSE <<"vor", diffSec>>)
                 ELSE IF diffMs < INACTIVE_MS THEN <<"vor", diffSec>>
                 ELSE <<"verloren", INACTIVE_MS \div 1000>>
         IN [asset EXCEPT !.dom.led = ledClass, !.dom.lastSeen = lastSeenText]

\* updateFtsTile without the call of updateSingleAssetStatus at its end
updateFtsTileUnclassified(asset, t) ==
    IF ~asset.dom.tile THEN asset
    ELSE LET rssiClass == IF asset.rssi > STRONG THEN "rssi-strong"
                          ELSE IF asset.rssi < WEAK THEN "rssi-weak"
                          ELSE "rssi-medium"
         IN [asset EXCEPT
                !.dom.rssiValue = asset.rssi,
                !.dom.rssiBar = rssiClass,
                !.dom.name = asset.name,
                !.dom.payload =
                    Substring0(asset.payload, PREVIEW_LEN) \o <<".",".",".">>]

\* updateFtsTile whose bands include the thresholds
updateFtsTileInclusive(asset, t) ==
    IF ~asset.dom.tile THEN asset
    ELSE LET rssiClass == IF asset.rssi >= STRONG THEN "rssi-strong"
                          ELSE IF asset.rssi <= WEAK THEN "rssi-weak"
                          ELSE "rssi-medium"
             drawn == [asset EXCEPT
                          !.dom.rssiValue = asset.rssi,
                          !.dom.rssiBar = rssiClass,
                          !.dom.name = asset.name,
                          !.dom.payload =
                              Substring0(asset.payload, PREVIEW_LEN) \o <<".",".",".">>]
         IN updateSingleAssetStatus(drawn, t)

updateFtsTile(asset, t) ==
    IF ~asset.dom.tile THEN asset
    ELSE LET rssiClass == IF asset.rssi > STRONG THEN "rssi-strong"
                          ELSE IF asset.rssi < WEAK THEN "rssi-weak"
                          ELSE "rssi-medium"
             drawn == [asset EXCEPT
                          !.dom.rssiValue = asset.rssi,
                          !.dom.rssiBar = rssiClass,
                          !.dom.name = asset.name,
                          !.dom.payload =
                              Substring0(asset.payload, PREVIEW_LEN) \o <<".",".",".">>]
         IN updateSingleAssetStatus(drawn, t)

createFtsTile(asset, t) ==
    LET tiled == [asset EXCEPT !.dom =
                     [tile |-> TRUE, led |-> "", name |-> asset.name,
                      rssiValue |-> 0, rssiBar |-> "",
                      payload |-> <<".",".",".">>, lastSeen |-> <<"...">>]]
    IN updateSingleAssetStatus(updateFtsTile(tiled, t), t)

(***************************************************************************)
(* Scan controller: toggleScan and startScan.                              *)
(***************************************************************************)
ScanActive == scan # 0 /\ handles[scan]

\* Filters without the filter(Boolean) that drops the invalid profiles
FiltersUnfiltered(plist) == 1..Len(plist)

\* the filters startScan builds from the profile list (the index of each
\* profile that yields one)
Filters(plist) ==
    { i \in 1..Len(plist) : plist[i].type \in {"service", "manufacturer"} }

InvalidTypeWarnings(plist) ==
    [i \in 1..(Len(plist) - Cardinality(Filters(plist))) |-> "warn:invalid-profile-type"]

\* the stop branch of toggleScan; stopThrows: scan.stop() raises an exception,
\* after which the handle may (stillActive) or may not be active and the rest
\* of the try block is skipped
StopScan(stopThrows, stillActive) ==
    IF stopThrows
    THEN /\ handles' = [handles EXCEPT ![scan] = stillActive]
         /\ lastEvent' = Event("toggleScan", "stop", <<"error:stop-failed">>, << >>)
         /\ UNCHANGED << scan, tickerInterval, btnScanning, listening, pending,
                         requests, intervals >>
    ELSE /\ handles' = [handles EXCEPT ![scan] = FALSE]
         /\ btnScanning' = FALSE
         /\ intervals' = intervals \ {tickerInterval}
         /\ tickerInterval' = 0
         /\ lastEvent' = Event("toggleScan", "stop", <<"log:scan-stopped">>, << >>)
         /\ UNCHANGED << scan, listening, pending, requests >>

\* startScan up to the await
startScan ==
    /\ IF ~bluetooth
       THEN /\ lastEvent' = Event("toggleScan", "start",
                                <<"log:scan-requested", "error:no-bluetooth">>, << >>)
            /\ UNCHANGED << pending, requests >>
       ELSE IF Filters(profiles) = {}
       THEN /\ lastEvent' = Event("toggleScan", "start",
                                <<"log:scan-requested">>
                                \o InvalidTypeWarnings(profiles)
                                \o <<"error:no-valid-profiles">>, << >>)
            /\ UNCHANGED << pending, requests >>
       ELSE /\ requests' = requests + 1
            /\ pending' = pending + 1
            /\ lastEvent' = Event("toggleScan", "start",
                                <<"log:scan-requested">>
                                \o InvalidTypeWarnings(profiles)
                                \o <<"log:scan-starts">>, << >>)
    /\ UNCHANGED << scan, tickerInterval, btnScanning, listening, handles, intervals >>

\* toggleScan without the test for an active scan
toggleScanAlwaysStart(stopThrows, stillActive) ==
    /\ startScan
    /\ UNCHANGED << configVars, registryVars, currentInspectedId, localStorage, now >>

toggleScan(stopThrows, stillActive) ==
    /\ IF ScanActive THEN StopScan(stopThrows, stillActive) ELSE startScan
    /\ UNCHANGED << configVars, registryVars, currentInspectedId, localStorage, now >>

\* a click on the start button, while the scan source has received fewer than
\* maxRequests requests
Click(maxRequests, stopOutcomes) ==
    \E stopThrows \in stopOutcomes, stillActive \in BOOLEAN :
        /\ ScanActive \/ requests < maxRequests
        /\ stopThrows \/ ~stillActive
        /\ toggleScan(stopThrows, stillActive)

\* startScan after the await: requestLEScan resolved with a new handle
StartResolved ==
    /\ pending > 0
    /\ pending' = pending - 1
    /\ handles' = Append(handles, TRUE)
    /\ scan' = Len(handles) + 1
    /\ listening' = TRUE
    /\ btnScanning' = TRUE
    /\ tickerInterval' = Len(handles) + 1
    /\ intervals' = (intervals \ {tickerInterval}) \cup {Len(handles) + 1}
    /\ lastEvent' = Event("startScan", "resolved", <<"log:scan-active">>, << >>)
    /\ UNCHANGED << requests, configVars, registryVars, currentInspectedId,
                    localStorage, now >>

\* startScan after the await: requestLEScan rejected
StartRejected ==
    /\ pending > 0
    /\ pending' = pending - 1
    /\ btnScanning' = FALSE
    /\ \E name \in {"AbortError", "NotFoundError"} :
           lastEvent' = Event("startScan", name,
                            IF name = "AbortError"
                            THEN <<"warn:user-aborted">> ELSE <<"error:scan-failed">>,
                            << >>)
    /\ UNCHANGED << scan, tickerInterval, listening, handles, requests, intervals,
                    configVars, registryVars, currentInspectedId, localStorage, now >>

(***************************************************************************)
(* Registry: handleAdvertisement.                                          *)
(***************************************************************************)
\* MapSet that forgets every other entry
MapSetOnly(m, k, v) == [x \in {k} |-> v]

MapSet(m, k, v) == [x \in DOMAIN m \cup {k} |-> IF x = k THEN v ELSE m[x]]

\* localStorage.getItem
GetItem(store, k) == IF k \in DOMAIN store THEN store[k] ELSE NullStr

\* PushHistory evicting one observation too early
PushHistoryEarly(history, rssi) ==
    LET pushed == Append(history, rssi)
    IN IF Len(pushed) >= HISTORY_CAP THEN Tail(pushed) ELSE pushed

\* rssiHistory.push(rssi) and the shift() that follows it
PushHistory(history, rssi) ==
    LET pushed == Append(history, rssi)
    IN IF Len(pushed) > HISTORY_CAP THEN Tail(pushed) ELSE pushed

\* UpdateAsset taking over the profile of the latest observation
UpdateAssetReprofiled(existingAsset, rssi, t, payload, profile) ==
    updateFtsTile(
        [existingAsset EXCEPT
            !.rssi = rssi,
            !.lastSeen = t,
            !.payload = payload,
            !.profileName = profile.profileName,
            !.rssiHistory = PushHistory(existingAsset.rssiHistory, rssi)],
        t)

\* UpdateAsset that loads the stored nickname again
UpdateAssetRenamed(existingAsset, rssi, t, payload, profile) ==
    LET savedName == GetItem(localStorage, existingAsset.id)
    IN updateFtsTile(
           [existingAsset EXCEPT
               !.rssi = rssi,
               !.lastSeen = t,
               !.payload = payload,
               !.name = IF Falsy(savedName) THEN @ ELSE savedName,
               !.rssiHistory = PushHistory(existingAsset.rssiHistory, rssi)],
           t)

\* UpdateAsset that keeps the time of the first observation
UpdateAssetStaleTime(existingAsset, rssi, t, payload, profile) ==
    updateFtsTile(
        [existingAsset EXCEPT
            !.rssi = rssi,
            !.payload = payload,
            !.rssiHistory = PushHistory(existingAsset.rssiHistory, rssi)],
        t)

\* the update branch of handleAdvertisement (profile is in scope and unused)
UpdateAsset(existingAsset, rssi, t, payload, profile) ==
    updateFtsTile(
        [existingAsset EXCEPT
            !.rssi = rssi,
            !.lastSeen = t,
            !.payload = payload,
            !.rssiHistory = PushHistory(existingAsset.rssiHistory, rssi)],
        t)

\* NewAsset that does not look into localStorage
NewAssetUnnamed(deviceId, rssi, t, payload, profile, store) ==
    createFtsTile(
        [id |-> deviceId,
         rssi |-> rssi,
         lastSeen |-> t,
         payload |-> payload,
         profileName |-> profile.profileName,
         name |-> DEFAULT_NAME,
         rssiHistory |-> <<rssi>>,
         dom |-> NullDom],
        t)

\* the creation branch of handleAdvertisement
NewAsset(deviceId, rssi, t, payload, profile, store) ==
    LET savedName == GetItem(store, deviceId)
    IN createFtsTile(
           [id |-> deviceId,
            rssi |-> rssi,
            lastSeen |-> t,
            payload |-> payload,
            profileName |-> profile.profileName,
            name |-> IF Falsy(savedName) THEN DEFAULT_NAME ELSE savedName,
            rssiHistory |-> <<rssi>>,
            dom |-> NullDom],
           t)

\* an advertisement is delivered while the listener is registered and a scan
\* handle is active
Receiving == listening /\ \E h \in 1..Len(handles) : handles[h]

\* Discarded that lets a null payload through
DiscardedIfEmpty(found) == found.payload = << >>

\* "if (!payload) return"
Discarded(found) == Falsy(found.payload)

handleAdvertisement(deviceId, rssi, event) ==
    LET found == extractRelevantPayload(profiles, event)
    IN /\ Receiving
       /\ IF Discarded(found)
          THEN /\ lastEvent' = [Event("handleAdvertisement", deviceId,
                                      found.warnings, << >>)
                                  EXCEPT !.event = event]
               /\ UNCHANGED << detectedAssets, obsLog >>
          ELSE IF deviceId \notin DOMAIN detectedAssets /\ found.profile = 0
          THEN \* profile.profileName of null: a TypeError ends the handler
               /\ lastEvent' = [Event("handleAdvertisement", deviceId,
                                      Append(found.warnings, "error:TypeError"), << >>)
                                  EXCEPT !.event = event]
               /\ UNCHANGED << detectedAssets, obsLog >>
          ELSE /\ IF deviceId \in DOMAIN detectedAssets
                  THEN /\ detectedAssets' =
                             [detectedAssets EXCEPT ![deviceId] =
                                 UpdateAsset(detectedAssets[deviceId], rssi, now,
                                     found.payload,
                                     IF found.profile = 0 THEN NullStr
                                     ELSE profiles[found.profile])]
                       /\ lastEvent' = [Event("handleAdvertisement", deviceId,
                                              found.warnings, <<"updateFtsTile">>)
                                          EXCEPT !.event = event,
                                                 !.profile = found.profile]
                  ELSE /\ detectedAssets' =
                             MapSet(detectedAssets, deviceId,
                                 NewAsset(deviceId, rssi, now, found.payload,
                                          profiles[found.profile], localStorage))
                       /\ lastEvent' = [Event("handleAdvertisement", deviceId,
                                              Append(found.warnings, "log:new-fts"),
                                              <<"createFtsTile">>)
                                          EXCEPT !.event = event,
                                                 !.profile = found.profile]
               /\ obsLog' = [obsLog EXCEPT ![deviceId] = Append(@, rssi)]
       /\ UNCHANGED << configVars, controllerVars, currentInspectedId,
                       localStorage, now >>

\* an advertisement from one of ids, while that identity has fewer than maxObs
\* matched observations
Advertisement(ids, rssis, events, maxObs) ==
    \E deviceId \in ids, rssi \in rssis, event \in events :
        /\ Len(obsLog[deviceId]) < maxObs
        /\ handleAdvertisement(deviceId, rssi, event)

(***************************************************************************)
(* Periodic ticker and clock.                                              *)
(***************************************************************************)
updateAllAssetStatus ==
    /\ intervals # {}
    /\ detectedAssets' =
           [d \in DOMAIN detectedAssets |->
               updateSingleAssetStatus(detectedAssets[d], now)]
    /\ lastEvent' = Event("updateAllAssetStatus", "", << >>, << >>)
    /\ UNCHANGED << configVars, controllerVars, currentInspectedId, localStorage,
                    now, obsLog >>

Advance(times) ==
    /\ \E t \in times : t > now /\ now' = t
    /\ UNCHANGED << configVars, controllerVars, registryVars, currentInspectedId,
                    localStorage, lastEvent >>

(***************************************************************************)
(* Inspector: showInspectorModal, hideInspectorModal, saveNickname.        *)
(***************************************************************************)
\* a click on the tile of deviceId
showInspectorModal(deviceId) ==
    /\ deviceId \in DOMAIN detectedAssets
    /\ currentInspectedId' = <<deviceId>>
    /\ lastEvent' = Event("showInspectorModal", deviceId, <<"log:inspector-opened">>, << >>)
    /\ UNCHANGED << configVars, controllerVars, registryVars, localStorage, now >>

hideInspectorModal ==
    /\ currentInspectedId' = NullStr
    /\ lastEvent' = Event("hideInspectorModal", "", <<"log:inspector-closed">>, << >>)
    /\ UNCHANGED << configVars, controllerVars, registryVars, localStorage, now >>

\* saveNickname that takes the new name back when the write to localStorage
\* raises an exception
saveNicknameRollback(newName, setItemThrows) ==
    /\ currentInspectedId # NullStr
    /\ LET id == currentInspectedId[1]
           asset == detectedAssets[id]
       IN /\ id \in DOMAIN detectedAssets
          /\ IF ~Falsy(newName) /\ Trim(newName) # << >>
             THEN LET named == [asset EXCEPT !.name = Trim(newName)]
                  IN /\ detectedAssets' =
                            IF setItemThrows THEN detectedAssets
                            ELSE [detectedAssets EXCEPT ![id] = updateFtsTile(named, now)]
                     /\ localStorage' =
                            IF setItemThrows THEN localStorage
                            ELSE MapSet(localStorage, id, named.name)
                     /\ currentInspectedId' = NullStr
                     /\ lastEvent' =
                            Event("saveNickname", id,
                                  <<IF setItemThrows THEN "error:nickname-not-saved"
                                    ELSE "log:nickname-saved",
                                    "log:inspector-closed">>,
                                  IF setItemThrows THEN << >> ELSE <<"updateFtsTile">>)
             ELSE /\ lastEvent' = Event("saveNickname", id,
                                        <<"warn:nickname-empty">>, << >>)
                  /\ UNCHANGED << detectedAssets, localStorage, currentInspectedId >>
    /\ UNCHANGED << configVars, controllerVars, obsLog, now >>

\* saveNickname with newName in the input field; setItemThrows: the write to
\* localStorage raises an exception
saveNickname(newName, setItemThrows) ==
    /\ currentInspectedId # NullStr
    /\ LET id == currentInspectedId[1]
           asset == detectedAssets[id]
       IN /\ id \in DOMAIN detectedAssets
          /\ IF ~Falsy(newName) /\ Trim(newName) # << >>
             THEN LET named == [asset EXCEPT !.name = Trim(newName)]
                  IN /\ detectedAssets' =
                            [detectedAssets EXCEPT ![id] = updateFtsTile(named, now)]
                     /\ localStorage' =
                            IF setItemThrows THEN localStorage
                            ELSE MapSet(localStorage, id, named.name)
                     /\ currentInspectedId' = NullStr
                     /\ lastEvent' =
                            Event("saveNickname", id,
                                  <<IF setItemThrows THEN "error:nickname-not-saved"
                                    ELSE "log:nickname-saved",
                                    "log:inspector-closed">>,
                                  <<"updateFtsTile">>)
             ELSE /\ lastEvent' = Event("saveNickname", id,
                                        <<"warn:nickname-empty">>, << >>)
                  /\ UNCHANGED << detectedAssets, localStorage, currentInspectedId >>
    /\ UNCHANGED << configVars, controllerVars, obsLog, now >>

Inspector(names, setItemOutcomes) ==
    \/ \E deviceId \in DeviceIds : showInspectorModal(deviceId)
    \/ hideInspectorModal
    \/ \E newName \in names, setItemThrows \in setItemOutcomes :
           saveNickname(newName, setItemThrows)

(***************************************************************************)
(* Spec: the scan controller under every interleaving of clicks, settled   *)
(* start requests, ticker firings and advertisements of one identity.      *)
(***************************************************************************)
AdService == [serviceData |-> <<[key |-> "0xfcf1", data |-> <<4, 55>>]>>,
              manufacturerData |-> << >>]

AdManufacturer == [serviceData |-> << >>,
                   manufacturerData |-> <<[key |-> COMPANY_ID, data |-> <<4, 55>>]>>]

AdUnknown == [serviceData |-> <<[key |-> "0x1234", data |-> <<4, 55>>]>>,
              manufacturerData |-> << >>]

CommonAdvertisements == {AdService, AdManufacturer, AdUnknown}

Next ==
    \/ Click(MaxRequests, BOOLEAN)
    \/ StartResolved
    \/ StartRejected
    \/ Advertisement({"d1"}, RssiValues, CommonAdvertisements, MaxObs)
    \/ updateAllAssetStatus
    \/ Advance(TimePoints)

Spec == Init /\ [][Next]_vars

(***************************************************************************)
(* SpecAssets: one asset under observations, relabels, ticker firings and  *)
(* the clock, with one accepted start request.                             *)
(***************************************************************************)
NextAssets ==
    \/ Click(1, {FALSE})
    \/ StartResolved
    \/ Advertisement({"d1"}, RssiValues, CommonAdvertisements, MaxObs)
    \/ updateAllAssetStatus
    \/ Advance(TimePoints)
    \/ Inspector(NameInputs, BOOLEAN)

SpecAssets == Init /\ [][NextAssets]_vars

(***************************************************************************)
(* SpecMatch: the profile matcher applied to every advertisement of        *)
(* Advertisements under every profile list.                                *)
(***************************************************************************)
NextMatch ==
    \/ Click(1, {FALSE})
    \/ StartResolved
    \/ Advertisement({"d1"}, {-70}, Advertisements, MaxObs)

SpecMatch == Init /\ [][NextMatch]_vars

(***************************************************************************)
(* SpecHist: one identity observed up to MaxHistObs times, its signal      *)
(* strength changing at most MaxSwitches times.                            *)
(***************************************************************************)
Switches(log) == Cardinality({ i \in 1..(Len(log) - 1) : log[i] # log[i + 1] })

HistAdvertisement ==
    \E rssi \in RssiValues :
        /\ Len(obsLog["d1"]) < MaxHistObs
        /\ Switches(Append(obsLog["d1"], rssi)) <= MaxSwitches
        /\ handleAdvertisement("d1", rssi, AdService)

NextHist ==
    \/ Click(1, {FALSE})
    \/ StartResolved
    \/ HistAdvertisement

SpecHist == Init /\ [][NextHist]_vars

(***************************************************************************)
(* SpecRegistry: two identities under observations, relabels, ticker       *)
(* firings, the clock, one start and one stop.                             *)
(***************************************************************************)
RegistryAdvertisements == {AdService, AdUnknown}

NextRegistry ==
    \/ Click(1, {FALSE})
    \/ StartResolved
    \/ Advertisement(DeviceIds, {-70}, RegistryAdvertisements, MaxObs)
    \/ updateAllAssetStatus
    \/ Advance({ACTIVE_MS})
    \/ Inspector({<<"b">>}, {FALSE})

SpecRegistry == Init /\ [][NextRegistry]_vars

(***************************************************************************)
(* SpecLabels: relabels of one asset with every name of LabelInputs, the   *)
(* write to the label store failing or not.                                *)
(***************************************************************************)
NextLabels ==
    \/ Click(1, {FALSE})
    \/ StartResolved
    \/ Advertisement({"d1"}, {-70}, {AdService}, MaxObs)
    \/ Inspector(LabelInputs, BOOLEAN)

SpecLabels == Init /\ [][NextLabels]_vars

(***************************************************************************)
(* SpecFresh: one asset observed and swept at the clock readings of        *)
(* FreshTimes.                                                             *)
(***************************************************************************)
NextFresh ==
    \/ Click(1, {FALSE})
    \/ StartResolved
    \/ Advertisement({"d1"}, {-70}, {AdService}, MaxObs)
    \/ updateAllAssetStatus
    \/ Advance(FreshTimes)

SpecFresh == Init /\ [][NextFresh]_vars

(***************************************************************************)
(* SpecSignal: one asset observed with the signal strengths of             *)
(* BandRssiValues.                                                         *)
(***************************************************************************)
NextSignal ==
    \/ Click(1, {FALSE})
    \/ StartResolved
    \/ Advertisement({"d1"}, BandRssiValues, {AdService}, MaxObs)
    \/ updateAllAssetStatus

SpecSignal == Init /\ [][NextSignal]_vars

(***************************************************************************)
(* SpecRender: one asset observed with the byte sequences of RenderValues. *)
(***************************************************************************)
NextRender ==
    \/ Click(1, {FALSE})
    \/ StartResolved
    \/ Advertisement({"d1"}, {-70}, RenderAdvertisements, MaxObs)

SpecRender == Init /\ [][NextRender]_vars

(***************************************************************************)
(* SpecUpdate: one asset observed with two signal strengths and two        *)
(* payloads at two clock readings, relabelled and swept.                   *)
(***************************************************************************)
UpdateAdvertisements ==
    { e \in RenderAdvertisements : e.serviceData[1].data \in {<<4, 55>>, <<255>>} }

NextUpdate ==
    \/ Click(1, {FALSE})
    \/ StartResolved
    \/ Advertisement({"d1"}, RssiValues, UpdateAdvertisements, MaxObs)
    \/ updateAllAssetStatus
    \/ Advance({ACTIVE_MS})
    \/ Inspector({<<"b">>}, {FALSE})

SpecUpdate == Init /\ [][NextUpdate]_vars

(***************************************************************************)
(* SpecStarts: start requests that overlap, resolve or are rejected, and   *)
(* stops that never fail.                                                  *)
(***************************************************************************)
NextStarts ==
    \/ Click(MaxRequests, {FALSE})
    \/ StartResolved
    \/ StartRejected
    \/ Advertisement({"d1"}, {-70}, {AdService}, MaxObs)
    \/ updateAllAssetStatus

SpecStarts == Init /\ [][NextStarts]_vars

(***************************************************************************)
(* SpecIndependence: two identities observed and relabelled, the write to  *)
(* the label store failing or not.                                         *)
(***************************************************************************)
NextIndependence ==
    \/ Click(1, {FALSE})
    \/ StartResolved
    \/ Advertisement(DeviceIds, {-70}, {AdService}, MaxObs)
    \/ Advance({ACTIVE_MS})
    \/ Inspector({<<"b">>}, BOOLEAN)

SpecIndependence == Init /\ [][NextIndependence]_vars

(***************************************************************************)
(* Claims.                                                                 *)
(***************************************************************************)
Min(a, b) == IF a < b THEN a ELSE b

\* the last n elements of a sequence
LastN(log, n) == SubSeq(log, Len(log) - n + 1, Len(log))

ClickStep == \E stopThrows \in BOOLEAN, stillActive \in BOOLEAN :
                 toggleScan(stopThrows, stillActive)

\* the step is handleAdvertisement for the advertisement lastEvent' records
AdStep ==
    /\ lastEvent'.op = "handleAdvertisement"
    /\ \E deviceId \in DeviceIds, rssi \in RssiValues :
           handleAdvertisement(deviceId, rssi, lastEvent'.event)

\* C1: after the n-th matched observation of an identity its signalHistory
\* has length min(20, n), never more than 20, and is the most recent
\* min(20, n) signal strengths in arrival order, the newest last.
C1_HistoryIsLastTwenty ==
    \A d \in DeviceIds :
        LET n == Len(obsLog[d])
        IN /\ d \in DOMAIN detectedAssets <=> n > 0
           /\ n > 0 =>
                 LET history == detectedAssets[d].rssiHistory
                 IN /\ Len(history) = Min(HISTORY_CAP, n)
                    /\ Len(history) <= HISTORY_CAP
                    /\ history = LastN(obsLog[d], Min(HISTORY_CAP, n))
                    /\ history[Len(history)] = obsLog[d][n]

\* C1 witness: more than 20 observations, the evicted oldest one differing
\* from the oldest one kept
C1_Witness ==
    /\ Len(obsLog["d1"]) > HISTORY_CAP
    /\ Len(detectedAssets["d1"].rssiHistory) = HISTORY_CAP
    /\ obsLog["d1"][1] # detectedAssets["d1"].rssiHistory[1]
    /\ Switches(obsLog["d1"]) = MaxSwitches

\* C2: matchedProfileName is the matched profile's name when the asset is
\* created and the same in every later state, whatever a later observation
\* of the identity matches.
C2_ProfileNameFixed ==
    [][ \A d \in DeviceIds :
            /\ d \in DOMAIN detectedAssets =>
                  /\ d \in DOMAIN detectedAssets'
                  /\ detectedAssets'[d].profileName = detectedAssets[d].profileName
            /\ (d \notin DOMAIN detectedAssets /\ d \in DOMAIN detectedAssets') =>
                  /\ lastEvent'.profile # 0
                  /\ detectedAssets'[d].profileName =
                         profiles[lastEvent'.profile].profileName ]_vars

\* C2 witness: a relabelled asset whose latest observation matched another
\* profile than the one it was created from
C2_Witness ==
    /\ "d1" \in DOMAIN detectedAssets
    /\ lastEvent.op = "handleAdvertisement"
    /\ lastEvent.arg = "d1"
    /\ lastEvent.profile # 0
    /\ profiles[lastEvent.profile].profileName # detectedAssets["d1"].profileName
    /\ detectedAssets["d1"].name = <<"b">>
    /\ now > 0

\* the conditions the last handler reported at warn or error level
Reported(report) == \E i \in 1..Len(lastEvent.reports) : lastEvent.reports[i] = report

\* C3, as stated: a click on the start control while the controller is Active
\* is a no-op (the scan source receives no further request and the controller
\* is as it was).
C3_StartWhileActiveIsNoOp ==
    [][ (ScanActive /\ ClickStep) => UNCHANGED controllerVars ]_vars

\* C3, amended: a click while the controller is Active sends no start request
\* to the scan source, but it is no no-op: it takes the stop branch, after
\* which the handle held is stopped or the failure to stop it is reported.
\* Only a click that finds no active handle sends a start request, one a click.
C3_ClickWhileActiveStops ==
    [][ ClickStep =>
          /\ ScanActive =>
                /\ requests' = requests
                /\ pending' = pending
                /\ lastEvent'.arg = "stop"
                /\ ~handles'[scan] \/ lastEvent'.reports = <<"error:stop-failed">>
          /\ requests' # requests =>
                /\ ~ScanActive
                /\ requests' = requests + 1
                /\ pending' = pending + 1 ]_vars

\* C3 witness: the control was clicked while a scan was active, and the scan
\* source has received the one request that started that scan
C3_Witness ==
    /\ lastEvent.op = "toggleScan"
    /\ lastEvent.arg = "stop"
    /\ requests = 1
    /\ scan # 0
    /\ ~handles[scan]

\* C4: stop() from Active cancels the periodic sweep before it completes, and
\* no sweep is scheduled while the controller reports Idle (from the moment
\* it reports Idle until a later start is accepted).
C4_StopCancelsSweep ==
    [][ /\ (ScanActive /\ ClickStep) => (tickerInterval' = 0 /\ intervals' = {})
        /\ ~btnScanning' => intervals' = {} ]_vars

\* C5: when halting the scan source fails during stop(), the failure is
\* reported and the controller is Idle with the periodic sweep cancelled.
C5_FailedStopForcesIdle ==
    (lastEvent.op = "toggleScan" /\ lastEvent.arg = "stop") =>
        /\ Reported("error:stop-failed") \/ Reported("log:scan-stopped")
        /\ ~btnScanning
        /\ tickerInterval = 0
        /\ intervals = {}

\* C9: after a rejected scan-start request (no capability on the host, or
\* the request rejected) the controller is Idle, no sweep is scheduled and
\* no active scan handle is held; the causes are reported as distinct
\* conditions.
C9_RejectedStartLeavesIdle ==
    LET unavailable == lastEvent.op = "toggleScan" /\ Reported("error:no-bluetooth")
        rejected == lastEvent.op = "startScan" /\ lastEvent.arg # "resolved"
    IN /\ (unavailable \/ rejected) =>
              /\ ~btnScanning
              /\ tickerInterval = 0
              /\ intervals = {}
              /\ ~ScanActive
       /\ unavailable => lastEvent.reports = <<"log:scan-requested", "error:no-bluetooth">>
       /\ rejected =>
              lastEvent.reports =
                  IF lastEvent.arg = "AbortError"
                  THEN <<"warn:user-aborted">> ELSE <<"error:scan-failed">>

\* no profile of the configured list has a recognized type
NoUsableProfile ==
    \A i \in 1..Len(profiles) : profiles[i].type \notin {"service", "manufacturer"}

\* the state the controller is constructed in
Idle ==
    /\ ~btnScanning
    /\ scan = 0
    /\ tickerInterval = 0
    /\ intervals = {}
    /\ requests = 0
    /\ pending = 0
    /\ handles = << >>

\* C10, as stated: start() with a profile list that yields no filter fails
\* with NoValidProfiles; no request reaches the scan source, no sweep is
\* scheduled and the controller stays Idle.
C10_NoFiltersNoValidProfiles ==
    NoUsableProfile =>
        /\ Idle
        /\ lastEvent.op = "toggleScan" =>
               lastEvent.reports[Len(lastEvent.reports)] = "error:no-valid-profiles"

\* C10, amended: with the scanning capability present, start() with a profile
\* list that yields no filter fails with NoValidProfiles, after a warning for
\* every invalid profile; without the capability it fails with the
\* capability report instead, which is tested first.  In both cases no
\* request reaches the scan source, no sweep is scheduled and the controller
\* stays Idle.
C10_NoFiltersNoStart ==
    NoUsableProfile =>
        /\ Idle
        /\ lastEvent.op = "toggleScan" =>
               lastEvent.reports =
                   IF bluetooth
                   THEN <<"log:scan-requested">>
                        \o [i \in 1..Len(profiles) |-> "warn:invalid-profile-type"]
                        \o <<"error:no-valid-profiles">>
                   ELSE <<"log:scan-requested", "error:no-bluetooth">>

\* C10 witness: start was clicked with the capability present and no filter
C10_Witness ==
    /\ NoUsableProfile
    /\ bluetooth
    /\ lastEvent.op = "toggleScan"
    /\ Reported("error:no-valid-profiles")

(***************************************************************************)
(* Claims about the profile matcher.                                       *)
(***************************************************************************)
Keys(m) == { m[i].key : i \in 1..Len(m) }

\* the match condition of a profile: ByService, serviceData contains its
\* service identifier; ByManufacturer, manufacturerData contains its company
\* identifier
MatchCondition(profile, event) ==
    \/ profile.type = "service" /\ profile.key \in Keys(event.serviceData)
    \/ profile.type = "manufacturer" /\ profile.key \in Keys(event.manufacturerData)

\* the bytes the advertisement carries for the key of a profile whose match
\* condition holds
BytesFor(profile, event) ==
    LET m == IF profile.type = "service"
             THEN event.serviceData ELSE event.manufacturerData
    IN (CHOOSE e \in { m[i] : i \in 1..Len(m) } : e.key = profile.key).data

Readable(profile, event) ==
    MatchCondition(profile, event) /\ BytesFor(profile, event) # Malformed

\* the least element of a set of profile indices, 0 when it is empty
First(indices) ==
    IF indices = {} THEN 0 ELSE CHOOSE i \in indices : \A j \in indices : i <= j

AfterAdvertisement == lastEvent.op = "handleAdvertisement"

\* C7, as stated: the matcher returns the first profile in declared order
\* whose match condition holds, and no match exactly when there is none.
C7_FirstProfileWhoseConditionHolds ==
    AfterAdvertisement =>
        lastEvent.profile =
            First({ i \in 1..Len(profiles) : MatchCondition(profiles[i], lastEvent.event) })

\* C7, amended: the matcher returns the payload and the profile of the first
\* profile in declared order whose match condition holds and whose bytes can
\* be extracted, and no match exactly when there is no such profile.
C7_FirstReadableProfile ==
    AfterAdvertisement =>
        LET first == First({ i \in 1..Len(profiles) :
                               Readable(profiles[i], lastEvent.event) })
        IN /\ lastEvent.profile = first
           /\ first # 0 =>
                 /\ lastEvent.arg \in DOMAIN detectedAssets
                 /\ detectedAssets[lastEvent.arg].payload =
                        dataViewToHexString(BytesFor(profiles[first], lastEvent.event))
           /\ first = 0 => lastEvent.signals = << >>

\* C7 witness: the second profile is returned for an advertisement that
\* satisfies the match condition of the first and of the second profile
C7_Witness ==
    /\ AfterAdvertisement
    /\ lastEvent.profile = 2
    /\ MatchCondition(profiles[1], lastEvent.event)
    /\ MatchCondition(profiles[2], lastEvent.event)
    /\ detectedAssets[lastEvent.arg].payload = <<"0","x","0","4"," ","3","7">>

\* service data for two different identifiers, of which only the second is
\* the identifier of a configured profile
TwoServicesSecondConfigured(event) ==
    LET configured == { profiles[i].key :
                          i \in { j \in 1..Len(profiles) : profiles[j].type = "service" } }
    IN /\ Len(event.serviceData) = 2
       /\ event.serviceData[1].key # event.serviceData[2].key
       /\ event.serviceData[1].key \notin configured
       /\ event.serviceData[2].key \in configured

\* C6, as stated: an advertisement with service data for two identifiers, of
\* which only the second is configured, gets no match and leaves the registry
\* as it was.
C6_SecondServiceDiscarded ==
    [][ (AdStep /\ TwoServicesSecondConfigured(lastEvent'.event)) =>
            /\ lastEvent'.profile = 0
            /\ detectedAssets' = detectedAssets ]_vars

\* C6, amended: an advertisement with service data for two identifiers, of
\* which only the second is configured and has readable bytes, is matched:
\* to the profile of that identifier, with the payload rendered from its
\* bytes, unless a manufacturer profile declared earlier matches first; the
\* asset of its identity is created or updated.
C6_SecondServiceMatched ==
    [][ ( /\ AdStep
          /\ TwoServicesSecondConfigured(lastEvent'.event)
          /\ lastEvent'.event.serviceData[2].data # Malformed ) =>
            LET matched == profiles[lastEvent'.profile]
                id == lastEvent'.arg
            IN /\ lastEvent'.profile # 0
               /\ \/ /\ matched.type = "service"
                     /\ matched.key = lastEvent'.event.serviceData[2].key
                     /\ detectedAssets'[id].payload =
                            dataViewToHexString(lastEvent'.event.serviceData[2].data)
                  \/ /\ matched.type = "manufacturer"
                     /\ \A i \in 1..lastEvent'.profile : profiles[i].type # "service"
               /\ id \in DOMAIN detectedAssets'
               /\ obsLog'[id] = Append(obsLog[id], detectedAssets'[id].rssi)
               /\ lastEvent'.signals \in {<<"createFtsTile">>, <<"updateFtsTile">>} ]_vars

\* C6 witness: such an advertisement created the asset from the service
\* profile of its second identifier
C6_Witness ==
    /\ AfterAdvertisement
    /\ TwoServicesSecondConfigured(lastEvent.event)
    /\ lastEvent.profile # 0
    /\ profiles[lastEvent.profile].type = "service"
    /\ lastEvent.signals = <<"createFtsTile">>
    /\ lastEvent.arg \in DOMAIN detectedAssets

\* C8: when the matcher returns no match, handling the advertisement creates
\* no asset, changes no field of an asset and emits no presentation signal.
C8_NoMatchNoEffect ==
    [][ (AdStep /\ extractRelevantPayload(profiles, lastEvent'.event).profile = 0) =>
            /\ detectedAssets' = detectedAssets
            /\ obsLog' = obsLog
            /\ localStorage' = localStorage
            /\ UNCHANGED << controllerVars, currentInspectedId, now >>
            /\ lastEvent'.signals = << >> ]_vars

\* C8 witness: an advertisement without a match was handled while the
\* registry held an asset
C8_Witness ==
    /\ AfterAdvertisement
    /\ lastEvent.profile = 0
    /\ lastEvent.signals = << >>
    /\ lastEvent.arg \in DOMAIN detectedAssets

(***************************************************************************)
(* Claims about the registry.                                              *)
(***************************************************************************)
\* C11: the set of identities in the registry only grows: no step removes an
\* entry, an entry is added only by a matched observation of an identity not
\* yet known (exactly that identity, with a new tile), and a matched
\* observation of a known identity updates the asset held under that identity
\* instead of adding another; every asset is held under its own identity.
C11_RegistryOnlyGrows ==
    [][ /\ DOMAIN detectedAssets \subseteq DOMAIN detectedAssets'
        /\ \A d \in DOMAIN detectedAssets' : detectedAssets'[d].id = d
        /\ DOMAIN detectedAssets' # DOMAIN detectedAssets =>
              /\ lastEvent'.op = "handleAdvertisement"
              /\ lastEvent'.signals = <<"createFtsTile">>
              /\ lastEvent'.arg \notin DOMAIN detectedAssets
              /\ DOMAIN detectedAssets' = DOMAIN detectedAssets \cup {lastEvent'.arg}
        /\ (AdStep /\ lastEvent'.arg \in DOMAIN detectedAssets) =>
              /\ DOMAIN detectedAssets' = DOMAIN detectedAssets
              /\ lastEvent'.signals \in {<< >>, <<"updateFtsTile">>}
              /\ Len(detectedAssets'[lastEvent'.arg].rssiHistory) =
                     Min(HISTORY_CAP, Len(obsLog'[lastEvent'.arg]))
      ]_vars

\* C11 witness: two identities are known, one of them observed twice and
\* relabelled, the scan stopped after a ticker firing
C11_Witness ==
    /\ DOMAIN detectedAssets = DeviceIds
    /\ \E d \in DeviceIds :
          /\ Len(obsLog[d]) = 2
          /\ detectedAssets[d].name = <<"b">>
    /\ lastEvent.op = "toggleScan"
    /\ lastEvent.arg = "stop"
    /\ now > 0

\* the step is saveNickname with newName in the input field
RelabelStep(newName) ==
    \E setItemThrows \in BOOLEAN : saveNickname(newName, setItemThrows)

\* empty or white space only
Blank(s) == \A i \in 1..Len(s) : IsSpace(s[i])

\* r is s without its leading and trailing white space
Stripped(s, r) ==
    /\ r # << >>
    /\ ~IsSpace(r[1])
    /\ ~IsSpace(r[Len(r)])
    /\ \E i \in 1..Len(s) :
          /\ i + Len(r) - 1 <= Len(s)
          /\ r = SubSeq(s, i, i + Len(r) - 1)
          /\ \A j \in 1..Len(s) : (j < i \/ j > i + Len(r) - 1) => IsSpace(s[j])

\* C12: a relabel of a known identity with a new label that is empty or
\* white space only fails with InvalidLabel and leaves the asset and the
\* label store unchanged; with any other label it succeeds and sets the
\* label to the new label without its leading and trailing white space.
C12_RelabelTrimsOrRejects ==
    [][ \A newName \in LabelInputs :
            RelabelStep(newName) =>
                LET id == currentInspectedId[1]
                IN IF Blank(newName)
                   THEN /\ lastEvent'.reports = <<"warn:nickname-empty">>
                        /\ detectedAssets' = detectedAssets
                        /\ localStorage' = localStorage
                   ELSE /\ Stripped(newName, detectedAssets'[id].name)
                        /\ detectedAssets'[id].dom.name = detectedAssets'[id].name
                        /\ \/ localStorage' = localStorage
                           \/ /\ id \in DOMAIN localStorage'
                              /\ localStorage'[id] = detectedAssets'[id].name
                        /\ \A i \in 1..Len(lastEvent'.reports) :
                               lastEvent'.reports[i] # "warn:nickname-empty" ]_vars

\* C12 witness: an asset relabelled to a label with white space inside, and a
\* later relabel of it with a blank label rejected
C12_Witness ==
    /\ lastEvent.op = "saveNickname"
    /\ lastEvent.reports = <<"warn:nickname-empty">>
    /\ detectedAssets[lastEvent.arg].name = <<"a", " ", "b">>
    /\ localStorage[lastEvent.arg] = <<"a", " ", "b">>

\* C13: when the write to the label store fails during a valid relabel, the
\* failure is reported, the asset holds the new label without its leading and
\* trailing white space afterwards (nothing is taken back), the label store
\* is as it was, and the "asset updated" signal is still emitted with the new
\* label.
C13_FailedWriteKeepsLabel ==
    [][ \A newName \in LabelInputs :
            (saveNickname(newName, TRUE) /\ ~Blank(newName)) =>
                LET id == currentInspectedId[1]
                IN /\ lastEvent'.reports[1] = "error:nickname-not-saved"
                   /\ Stripped(newName, detectedAssets'[id].name)
                   /\ localStorage' = localStorage
                   /\ lastEvent'.signals = <<"updateFtsTile">>
                   /\ detectedAssets'[id].dom.name = detectedAssets'[id].name ]_vars

\* C13 witness: the write failed, the asset holds the new label and the label
\* store another one or none
C13_Witness ==
    /\ lastEvent.op = "saveNickname"
    /\ lastEvent.reports[1] = "error:nickname-not-saved"
    /\ detectedAssets[lastEvent.arg].name = <<"b">>
    /\ GetItem(localStorage, lastEvent.arg) \in {NullStr, <<"a">>}

(***************************************************************************)
(* Claims about the classifiers.                                           *)
(***************************************************************************)
\* led is the freshness band of elapsed: Fresh (green) iff elapsed is below
\* the active window, Stale (yellow) iff it is in the active window or above
\* and below the inactive window, Lost (red) iff it is in the inactive window
\* or above
FreshnessBandIs(led, elapsed) ==
    /\ led \in {"led-green", "led-yellow", "led-red"}
    /\ led = "led-green" <=> elapsed < ACTIVE_MS
    /\ led = "led-yellow" <=> (ACTIVE_MS <= elapsed /\ elapsed < INACTIVE_MS)
    /\ led = "led-red" <=> elapsed >= INACTIVE_MS
    /\ elapsed = 4999 => led = "led-green"
    /\ elapsed = 5000 => led = "led-yellow"
    /\ elapsed = 30000 => led = "led-red"

\* C14: the freshness band a classification gives an asset is a function of
\* elapsed = now - lastSeenAt and the two thresholds alone: Fresh iff elapsed
\* < 5000, Stale iff 5000 <= elapsed < 30000, Lost iff elapsed >= 30000; so
\* 4999 is Fresh, 5000 is Stale and 30000 is Lost.
C14_FreshnessBand ==
    [][ /\ updateAllAssetStatus =>
              \A d \in DOMAIN detectedAssets :
                  FreshnessBandIs(detectedAssets'[d].dom.led,
                                  now - detectedAssets[d].lastSeen)
        /\ (AdStep /\ lastEvent'.signals # << >>) =>
              FreshnessBandIs(detectedAssets'[lastEvent'.arg].dom.led,
                              now - detectedAssets'[lastEvent'.arg].lastSeen) ]_vars

\* C14 witness: a sweep classified an asset last seen exactly one active
\* window ago
C14_Witness ==
    /\ lastEvent.op = "updateAllAssetStatus"
    /\ "d1" \in DOMAIN detectedAssets
    /\ detectedAssets["d1"].lastSeen > 0
    /\ now - detectedAssets["d1"].lastSeen = ACTIVE_MS
    /\ detectedAssets["d1"].dom.led = "led-yellow"

\* C15: the signal band shown for an asset is Strong iff its signal strength
\* is above -75, Weak iff it is below -88 and Medium otherwise, the two
\* thresholds themselves being Medium; so -74 is Strong, -75 is Medium and
\* -89 is Weak.
C15_SignalBand ==
    \A d \in DOMAIN detectedAssets :
        LET signalStrength == detectedAssets[d].rssi
            bar == detectedAssets[d].dom.rssiBar
        IN /\ detectedAssets[d].dom.rssiValue = signalStrength
           /\ bar \in {"rssi-strong", "rssi-medium", "rssi-weak"}
           /\ bar = "rssi-strong" <=> signalStrength > STRONG
           /\ bar = "rssi-weak" <=> signalStrength < WEAK
           /\ bar = "rssi-medium" <=> (WEAK <= signalStrength /\ signalStrength <= STRONG)
           /\ signalStrength = -74 => bar = "rssi-strong"
           /\ signalStrength = -75 => bar = "rssi-medium"
           /\ signalStrength = -88 => bar = "rssi-medium"
           /\ signalStrength = -89 => bar = "rssi-weak"

\* C15 witness: an asset first observed above the strong threshold is now
\* observed at that threshold and shown as Medium
C15_Witness ==
    /\ "d1" \in DOMAIN detectedAssets
    /\ detectedAssets["d1"].rssiHistory = <<STRONG + 1, STRONG>>
    /\ detectedAssets["d1"].dom.rssiBar = "rssi-medium"

(***************************************************************************)
(* Claims about the rendering of payloads.                                 *)
(***************************************************************************)
\* the value of an uppercase hexadecimal digit, -1 for any other character
HexValue(c) ==
    IF \E i \in 1..16 : HexDigits[i] = c
    THEN (CHOOSE i \in 1..16 : HexDigits[i] = c) - 1
    ELSE -1

\* p is "0x" followed by every byte as two uppercase hexadecimal digits, the
\* bytes separated by single spaces, no space at the end
HexRendering(bytes, p) ==
    /\ Len(p) = 3 * Len(bytes) + 1
    /\ p[1] = "0"
    /\ p[2] = "x"
    /\ \A k \in 1..Len(bytes) :
          /\ HexValue(p[3 * k]) >= 0
          /\ HexValue(p[3 * k + 1]) >= 0
          /\ 16 * HexValue(p[3 * k]) + HexValue(p[3 * k + 1]) = bytes[k]
          /\ k < Len(bytes) => p[3 * k + 2] = " "

\* the sentinel as the claim spells it
StatedSentinel ==
    <<"N","/","A"," ","(","e","m","p","t","y"," ","p","a","y","l","o","a","d",")">>

\* the payload of the asset of the last matched advertisement is the
\* rendering of the bytes that advertisement carries, sentinel standing for
\* an empty or absent byte sequence
RenderedWith(sentinel) ==
    (AfterAdvertisement /\ lastEvent.profile # 0) =>
        LET bytes == BytesFor(profiles[lastEvent.profile], lastEvent.event)
            p == detectedAssets[lastEvent.arg].payload
        IN /\ p \notin { << >>, <<"0","x">> }
           /\ IF bytes \in {NullView, << >>}
              THEN p = sentinel
              ELSE HexRendering(bytes, p)
           /\ bytes = <<4, 55>> => p = <<"0","x","0","4"," ","3","7">>

\* C16, as stated: a non-empty byte sequence renders as "0x" followed by each
\* byte as two uppercase hexadecimal digits, separated by single spaces, no
\* trailing space ([0x04, 0x37] as "0x04 37"); an empty or absent byte
\* sequence renders as the sentinel "N/A (empty payload)", never as an empty
\* hex string.
C16_RendersStatedSentinel == RenderedWith(StatedSentinel)

\* C16, amended: the same, the sentinel for an empty or absent byte sequence
\* being the string "N/A (leere Payload)".
C16_RendersHexOrSentinel == RenderedWith(EMPTY_PAYLOAD)

\* C16 witness: an asset whose latest observation carried no bytes after one
\* that carried three, two of them below or at 16
C16_Witness ==
    /\ AfterAdvertisement
    /\ lastEvent.profile # 0
    /\ BytesFor(profiles[lastEvent.profile], lastEvent.event) = << >>
    /\ detectedAssets[lastEvent.arg].payload = EMPTY_PAYLOAD
    /\ Len(obsLog[lastEvent.arg]) = 2

(***************************************************************************)
(* Claims about failed extractions, updates and creations.                 *)
(***************************************************************************)
\* the number of elements of a sequence equal to x
Count(seq, x) == Cardinality({ i \in 1..Len(seq) : seq[i] = x })

\* C17: when extracting the bytes for a profile whose key is present fails,
\* that profile is skipped with one warning and evaluation continues with the
\* next profile in declared order: a later profile whose bytes can be read is
\* still returned and its asset created or updated, and the failure aborts
\* neither the handling of the advertisement nor the scan.
C17_FailedExtractionSkipsProfile ==
    [][ AdStep =>
          LET event == lastEvent'.event
              first == First({ i \in 1..Len(profiles) : Readable(profiles[i], event) })
              failed == { i \in 1..Len(profiles) :
                            /\ MatchCondition(profiles[i], event)
                            /\ ~Readable(profiles[i], event)
                            /\ first = 0 \/ i < first }
          IN /\ Count(lastEvent'.reports, "warn:extract-failed") = Cardinality(failed)
             /\ lastEvent'.profile = first
             /\ first # 0 =>
                   /\ lastEvent'.signals \in {<<"createFtsTile">>, <<"updateFtsTile">>}
                   /\ detectedAssets'[lastEvent'.arg].profileName \in
                          { profiles[i].profileName : i \in 1..Len(profiles) }
             /\ \A i \in 1..Len(lastEvent'.reports) :
                    lastEvent'.reports[i] \in {"warn:extract-failed", "log:new-fts"}
             /\ UNCHANGED controllerVars
             /\ Receiving' ]_vars

\* C17 witness: the bytes of the first profile could not be read, which was
\* reported, and the asset was created from the second profile
C17_Witness ==
    /\ AfterAdvertisement
    /\ Reported("warn:extract-failed")
    /\ MatchCondition(profiles[1], lastEvent.event)
    /\ ~Readable(profiles[1], lastEvent.event)
    /\ lastEvent.profile = 2
    /\ lastEvent.signals = <<"createFtsTile">>
    /\ detectedAssets[lastEvent.arg].profileName = profiles[2].profileName

\* C18: after a matched observation of an identity already known, the
\* asset's lastSignalStrength, lastSeenAt and lastPayloadHex are the values
\* of that observation, its signal strength is the newest element of
\* signalHistory (the older elements kept in order, up to the capacity), and
\* the "asset updated" signal is emitted; and after every step signalHistory
\* of every asset is non-empty and its last element is lastSignalStrength.
C18_UpdateTakesObservation ==
    [][ /\ \A d \in DOMAIN detectedAssets' :
              LET history == detectedAssets'[d].rssiHistory
              IN /\ history # << >>
                 /\ history[Len(history)] = detectedAssets'[d].rssi
        /\ \A d \in DOMAIN detectedAssets, rssi \in RssiValues :
              ( /\ lastEvent'.op = "handleAdvertisement"
                /\ lastEvent'.profile # 0
                /\ handleAdvertisement(d, rssi, lastEvent'.event) ) =>
                 LET asset == detectedAssets'[d]
                     before == detectedAssets[d].rssiHistory
                     bytes == BytesFor(profiles[lastEvent'.profile], lastEvent'.event)
                 IN /\ asset.rssi = rssi
                    /\ asset.lastSeen = now
                    /\ asset.payload = dataViewToHexString(bytes)
                    /\ asset.rssiHistory =
                           LastN(Append(before, rssi), Min(HISTORY_CAP, Len(before) + 1))
                    /\ lastEvent'.signals = <<"updateFtsTile">>
                    /\ asset.dom.rssiValue = rssi
                    /\ asset.name = detectedAssets[d].name ]_vars

\* C18 witness: a relabelled asset observed again, later than at its creation,
\* with another signal strength and a payload of one byte
C18_Witness ==
    /\ AfterAdvertisement
    /\ lastEvent.signals = <<"updateFtsTile">>
    /\ detectedAssets[lastEvent.arg].rssiHistory = <<-70, -90>>
    /\ detectedAssets[lastEvent.arg].lastSeen = ACTIVE_MS
    /\ detectedAssets[lastEvent.arg].payload = <<"0","x","F","F">>
    /\ detectedAssets[lastEvent.arg].name = <<"b">>

\* the label the label store holds for an identity, the placeholder when it
\* holds none
StoredLabel(d) == IF d \in DOMAIN localStorage THEN localStorage[d] ELSE DEFAULT_NAME

\* C19: the first matched observation of an unknown identity creates an
\* asset under that identity whose label is the label stored for the
\* identity in the label store, or the placeholder when none is stored,
\* whose signalHistory is the one-element sequence of the observation's
\* signal strength, and whose matchedProfileName is the name of the profile
\* matched.
C19_CreationResolvesLabel ==
    [][ \A d \in DeviceIds, rssi \in RssiValues :
            ( /\ lastEvent'.op = "handleAdvertisement"
              /\ lastEvent'.profile # 0
              /\ d \notin DOMAIN detectedAssets
              /\ handleAdvertisement(d, rssi, lastEvent'.event) ) =>
               /\ DOMAIN detectedAssets' = DOMAIN detectedAssets \cup {d}
               /\ LET asset == detectedAssets'[d]
                  IN /\ asset.id = d
                     /\ asset.name = StoredLabel(d)
                     /\ asset.dom.name = StoredLabel(d)
                     /\ asset.rssiHistory = <<rssi>>
                     /\ asset.rssi = rssi
                     /\ asset.lastSeen = now
                     /\ asset.profileName = profiles[lastEvent'.profile].profileName
               /\ lastEvent'.signals = <<"createFtsTile">>
               /\ localStorage' = localStorage ]_vars

\* C19 witness: an asset created with the label the label store held for its
\* identity, from the second profile of the list
C19_Witness ==
    /\ AfterAdvertisement
    /\ lastEvent.signals = <<"createFtsTile">>
    /\ lastEvent.arg \in DOMAIN localStorage
    /\ detectedAssets[lastEvent.arg].name = <<"a">>
    /\ detectedAssets[lastEvent.arg].rssiHistory = <<-90>>
    /\ lastEvent.profile = 2

\* the tile of the asset shows the freshness classification of the asset at
\* clock reading t
ClassifiedAt(asset, t) ==
    /\ asset.dom.tile
    /\ FreshnessBandIs(asset.dom.led, t - asset.lastSeen)
    /\ updateSingleAssetStatus(asset, t).dom = asset.dom

\* C20: every matched observation is followed, in the same step (before the
\* next event is handled), by a freshness classification of the touched
\* asset, on creation as well as on update, and of no other asset; and every
\* firing of the periodic sweep classifies every asset that is in the
\* registry at that moment, changing nothing else.
C20_ClassifiedInlineAndBySweep ==
    [][ /\ (AdStep /\ lastEvent'.signals # << >>) =>
              /\ lastEvent'.signals \in {<<"createFtsTile">>, <<"updateFtsTile">>}
              /\ lastEvent'.arg \in DOMAIN detectedAssets'
              /\ ClassifiedAt(detectedAssets'[lastEvent'.arg], now)
              /\ detectedAssets'[lastEvent'.arg].dom.led = "led-green"
              /\ \A d \in DOMAIN detectedAssets \ {lastEvent'.arg} :
                     detectedAssets'[d] = detectedAssets[d]
        /\ updateAllAssetStatus =>
              /\ DOMAIN detectedAssets' = DOMAIN detectedAssets
              /\ \A d \in DOMAIN detectedAssets :
                     /\ ClassifiedAt(detectedAssets'[d], now)
                     /\ detectedAssets'[d] =
                            [detectedAssets[d] EXCEPT !.dom.led = detectedAssets'[d].dom.led,
                                !.dom.lastSeen = detectedAssets'[d].dom.lastSeen] ]_vars

\* C20 witness: after a sweep classified both assets as Stale, an observation
\* of one of them classified it as Fresh and left the other as it was
C20_Witness ==
    /\ AfterAdvertisement
    /\ lastEvent.signals = <<"updateFtsTile">>
    /\ DOMAIN detectedAssets = DeviceIds
    /\ detectedAssets[lastEvent.arg].dom.led = "led-green"
    /\ detectedAssets[lastEvent.arg].lastSeen = now
    /\ \E d \in DeviceIds \ {lastEvent.arg} :
          /\ detectedAssets[d].dom.led = "led-yellow"
          /\ now - detectedAssets[d].lastSeen = ACTIVE_MS

(***************************************************************************)
(* Claims about frame effects and the scan handles.                        *)
(***************************************************************************)
\* the fields of an asset that are not presentation outputs
AssetFields(asset) ==
    [id |-> asset.id, name |-> asset.name, rssi |-> asset.rssi,
     lastSeen |-> asset.lastSeen, payload |-> asset.payload,
     profileName |-> asset.profileName, rssiHistory |-> asset.rssiHistory]

\* C21: the periodic sweep and the inline classification change only
\* presentation outputs.  A sweep leaves the set of identities and every
\* asset's label, lastSignalStrength, lastSeenAt, lastPayloadHex,
\* matchedProfileName and signalHistory as they were; the classification
\* inside the handling of a matched observation leaves the touched asset
\* with the values the registry update gave it and every other asset as it
\* was; and classifying any asset of the registry at the current clock
\* reading would change none of these fields.
C21_ClassificationWritesPresentationOnly ==
    [][ /\ updateAllAssetStatus =>
              /\ DOMAIN detectedAssets' = DOMAIN detectedAssets
              /\ \A d \in DOMAIN detectedAssets :
                     AssetFields(detectedAssets'[d]) = AssetFields(detectedAssets[d])
              /\ UNCHANGED << obsLog, localStorage, controllerVars, currentInspectedId >>
        /\ \A d \in DeviceIds, rssi \in RssiValues :
              ( /\ lastEvent'.op = "handleAdvertisement"
                /\ lastEvent'.profile # 0
                /\ handleAdvertisement(d, rssi, lastEvent'.event) ) =>
                 /\ DOMAIN detectedAssets' = DOMAIN detectedAssets \cup {d}
                 /\ detectedAssets'[d].lastSeen = now
                 /\ detectedAssets'[d].rssi = rssi
                 /\ d \in DOMAIN detectedAssets =>
                       AssetFields(detectedAssets'[d]) =
                           [AssetFields(detectedAssets[d]) EXCEPT
                               !.rssi = rssi,
                               !.lastSeen = now,
                               !.payload = detectedAssets'[d].payload,
                               !.rssiHistory = detectedAssets'[d].rssiHistory]
                 /\ \A o \in DOMAIN detectedAssets \ {d} :
                       detectedAssets'[o] = detectedAssets[o]
        /\ \A d \in DOMAIN detectedAssets' :
              AssetFields(updateSingleAssetStatus(detectedAssets'[d], now')) =
                  AssetFields(detectedAssets'[d]) ]_vars

\* C21 witness: a sweep classified as Stale two assets, one of them
\* relabelled and observed twice, none of them seen since
C21_Witness ==
    /\ lastEvent.op = "updateAllAssetStatus"
    /\ DOMAIN detectedAssets = DeviceIds
    /\ \A d \in DeviceIds :
          /\ detectedAssets[d].dom.led = "led-yellow"
          /\ detectedAssets[d].lastSeen = 0
    /\ \E d \in DeviceIds :
          /\ detectedAssets[d].name = <<"b">>
          /\ Len(detectedAssets[d].rssiHistory) = 2

\* C22: in every reachable state the periodic sweep timer is scheduled only
\* if the controller presents Active and holds an active scan handle; a start
\* request rejected while another has been accepted never leaves the
\* controller presenting Idle with a sweep timer still scheduled.
C22_SweepOnlyWhileActive ==
    /\ intervals # {} => (btnScanning /\ ScanActive)
    /\ tickerInterval # 0 => (btnScanning /\ ScanActive)
    /\ (lastEvent.op = "startScan" /\ lastEvent.arg # "resolved") =>
           ~(~btnScanning /\ intervals # {})

\* the scan handles the scan source gave out that are active
ActiveHandles == { h \in 1..Len(handles) : handles[h] }

\* C23: at every moment at most one scan handle obtained from the scan
\* source is active, and after stop() completes none is, also when the start
\* control was triggered again while an earlier start request was pending.
C23_AtMostOneActiveHandle ==
    /\ Cardinality(ActiveHandles) <= 1
    /\ (lastEvent.op = "toggleScan" /\ lastEvent.arg = "stop") => ActiveHandles = {}

\* C24: label and observation state are independent.  A successful relabel
\* changes only the label of the asset shown in the inspector: its
\* lastSignalStrength, lastSeenAt, lastPayloadHex, signalHistory and
\* matchedProfileName, every other asset and the set of identities are as
\* they were.  A matched observation of a known identity leaves the label of
\* its asset as it was, whatever the label store holds for the identity.
C24_LabelAndObservationIndependent ==
    [][ /\ \A newName \in LabelInputs :
              (RelabelStep(newName) /\ ~Blank(newName)) =>
                  LET id == currentInspectedId[1]
                  IN /\ DOMAIN detectedAssets' = DOMAIN detectedAssets
                     /\ AssetFields(detectedAssets'[id]) =
                            [AssetFields(detectedAssets[id]) EXCEPT
                                !.name = detectedAssets'[id].name]
                     /\ \A o \in DOMAIN detectedAssets \ {id} :
                            detectedAssets'[o] = detectedAssets[o]
                     /\ obsLog' = obsLog
        /\ \A d \in DOMAIN detectedAssets, rssi \in RssiValues :
              ( /\ lastEvent'.op = "handleAdvertisement"
                /\ lastEvent'.profile # 0
                /\ handleAdvertisement(d, rssi, lastEvent'.event) ) =>
                 /\ detectedAssets'[d].name = detectedAssets[d].name
                 /\ detectedAssets'[d].dom.name = detectedAssets[d].name
                 /\ localStorage' = localStorage ]_vars

\* C24 witness: an asset relabelled while the write to the label store
\* failed, so that the store holds another label for it, was observed again,
\* the registry holding a second asset
C24_Witness ==
    /\ AfterAdvertisement
    /\ lastEvent.signals = <<"updateFtsTile">>
    /\ detectedAssets[lastEvent.arg].name = <<"b">>
    /\ GetItem(localStorage, lastEvent.arg) = <<"a">>
    /\ detectedAssets[lastEvent.arg].lastSeen = ACTIVE_MS
    /\ DOMAIN detectedAssets = DeviceIds

====
